---- MODULE Spec2Model ----
(***************************************************************************)
(* Model of the cyclone physics primitives: Vec3<T> (src/src/lib.rs) and   *)
(* Particle<T> (src/src/particle.rs), T: Float.                            *)
(*                                                                         *)
(* The scalar type T is modelled as a binary floating-point format with    *)
(* Precision significand bits, round-to-nearest, ties-to-even, exactly as  *)
(* f32 (24 bits) and f64 (53 bits) behave, but with a short significand    *)
(* so that the state space stays small.  The exponent range is not bounded   *)
(* (no overflow, no underflow).  A finite scalar is the                    *)
(* pair <<m, e>> standing for m * 2^e, kept canonical: zero is <<0, 0>>,   *)
(* any other value has m odd.  Canonical pairs are equal exactly when the  *)
(* floats compare equal.                                                   *)
(***************************************************************************)
EXTENDS Integers, Sequences, FiniteSets, TLC

\* Number of significand bits of the modelled float type T.
Precision == 4

\* Largest number of integrate calls on one particle.
MaxSteps == 3

\* Number of particles (and of tasks, one per particle) in the concurrent world.
NumParticles == 2

\* Largest number of integrate calls a task of the concurrent world makes.
MaxCalls == 2

-----------------------------------------------------------------------------
(* Exact dyadic rationals <<m, e>> = m * 2^e, used for the float values    *)
(* themselves and for the exact (unrounded) reference quantities.          *)

RECURSIVE Canon(_, _)
Canon(m, e) ==
    IF m = 0 THEN <<0, 0>>
    ELSE IF m % 2 = 0 THEN Canon(m \div 2, e + 1)
    ELSE <<m, e>>

Abs(n) == IF n < 0 THEN -n ELSE n
Sign(n) == IF n < 0 THEN -1 ELSE 1
Min(x, y) == IF x <= y THEN x ELSE y

\* The result of a division by zero (an infinity or a NaN); absorbing.
NonFinite == <<0, 1>>
IsFinite(x) == x # NonFinite

Zero == <<0, 0>>
One == <<1, 0>>
\* The float with the integer value n (n must be below 2^Precision in size).
I(n) == Canon(n, 0)
\* The float n / 2^k.
Dy(n, k) == Canon(n, -k)

ExAdd(x, y) ==
    LET e == Min(x[2], y[2])
    IN Canon(x[1] * 2^(x[2] - e) + y[1] * 2^(y[2] - e), e)
ExNeg(x) == <<-x[1], x[2]>>
ExSub(x, y) == ExAdd(x, ExNeg(y))
ExMul(x, y) == Canon(x[1] * y[1], x[2] + y[2])
ExAbs(x) == <<Abs(x[1]), x[2]>>
ExLe(x, y) == ExSub(y, x)[1] >= 0

-----------------------------------------------------------------------------
(* Floating-point arithmetic of T: each operation is the exact result      *)
(* rounded once to Precision bits.                                         *)

\* Round the magnitude n * 2^e (n >= 0), where sticky tells that the exact
\* value lies strictly above n * 2^e and below (n+1) * 2^e.
RECURSIVE RoundMag(_, _, _)
RoundMag(n, e, sticky) ==
    IF n >= 2^(Precision + 1)
    THEN RoundMag(n \div 2, e + 1, sticky \/ n % 2 = 1)
    ELSE IF n < 2^Precision
    THEN <<n, e>>
    ELSE LET q == n \div 2
             up == (n % 2 = 1) /\ (sticky \/ q % 2 = 1)
         IN <<IF up THEN q + 1 ELSE q, e + 1>>

Round(n, e) ==
    LET r == RoundMag(Abs(n), e, FALSE)
    IN Canon(Sign(n) * r[1], r[2])

FNeg(x) == IF IsFinite(x) THEN <<-x[1], x[2]>> ELSE NonFinite

FAdd(x, y) ==
    IF ~IsFinite(x) \/ ~IsFinite(y) THEN NonFinite
    ELSE LET e == Min(x[2], y[2])
         IN Round(x[1] * 2^(x[2] - e) + y[1] * 2^(y[2] - e), e)

FSub(x, y) == FAdd(x, FNeg(y))

FMul(x, y) ==
    IF ~IsFinite(x) \/ ~IsFinite(y) THEN NonFinite
    ELSE Round(x[1] * y[1], x[2] + y[2])

\* The rounded quotient (n / d) * 2^e, for n > 0 and d > 0.
RECURSIVE RoundQuot(_, _, _)
RoundQuot(n, d, e) ==
    IF n \div d < 2^(Precision + 1)
    THEN RoundQuot(2 * n, d, e - 1)
    ELSE RoundMag(n \div d, e, n % d # 0)

FDiv(x, y) ==
    IF ~IsFinite(x) \/ ~IsFinite(y) \/ y = Zero THEN NonFinite
    ELSE IF x = Zero THEN Zero
    ELSE LET r == RoundQuot(Abs(x[1]), Abs(y[1]), x[2] - y[2])
         IN Canon(Sign(x[1]) * Sign(y[1]) * r[1], r[2])

\* Largest s with s * s <= n, searched between lo and hi (lo*lo <= n < hi*hi).
RECURSIVE ISqrtIn(_, _, _)
ISqrtIn(n, lo, hi) ==
    IF hi - lo <= 1 THEN lo
    ELSE LET mid == (lo + hi) \div 2
         IN IF mid * mid <= n THEN ISqrtIn(n, mid, hi) ELSE ISqrtIn(n, lo, mid)

ISqrt(n) == ISqrtIn(n, 0, Min(n, 2^15) + 1)

\* The rounded square root of (n / d) * 2^e, for n > 0, d > 0 and e even.
RECURSIVE RoundSqrtQuot(_, _, _)
RoundSqrtQuot(n, d, e) ==
    IF n \div d < 4^(Precision + 1)
    THEN RoundSqrtQuot(4 * n, d, e - 2)
    ELSE LET s == ISqrt(n \div d)
             r == RoundMag(s, e \div 2, s * s * d # n)
         IN Canon(r[1], r[2])

\* The rounded square root of (n / d) * 2^e for any integer e.
SqrtOf(n, d, e) ==
    IF e % 2 = 0 THEN RoundSqrtQuot(n, d, e) ELSE RoundSqrtQuot(2 * n, d, e - 1)

FSqrt(x) ==
    IF ~IsFinite(x) \/ x[1] < 0 THEN NonFinite
    ELSE IF x = Zero THEN Zero
    ELSE SqrtOf(x[1], 1, x[2])

\* x.powi(2)
FPowi2(x) == FMul(x, x)

\* x.powf(y) for x > 0 and y = k / 2 a multiple of one half: the exact power
\* x^(k/2) = sqrt(x^k) rounded once.
FPowf(x, y) ==
    IF ~IsFinite(x) \/ ~IsFinite(y) \/ x[1] <= 0 \/ y[2] < -1 THEN NonFinite
    ELSE LET k == y[1] * 2^(y[2] + 1)
         IN IF k >= 0
            THEN SqrtOf(x[1]^k, 1, x[2] * k)
            ELSE SqrtOf(1, x[1]^(-k), x[2] * k)

-----------------------------------------------------------------------------
(* Vec3<T>: a triple of scalars; v[1], v[2], v[3] are the fields .0 .1 .2  *)

Vec3(x, y, z) == <<x, y, z>>

invert(self) == Vec3(FNeg(self[1]), FNeg(self[2]), FNeg(self[3]))

mag(self) ==
    FSqrt(FAdd(FAdd(FPowi2(self[1]), FPowi2(self[2])), FPowi2(self[3])))

mag_squared(self) ==
    FAdd(FAdd(FPowi2(self[1]), FPowi2(self[2])), FPowi2(self[3]))

add(self, other) ==
    Vec3(FAdd(self[1], other[1]), FAdd(self[2], other[2]), FAdd(self[3], other[3]))

\* A slip in add_assign: the third field takes the second field of other.
add_assign_slip(self, other) ==
    LET s1 == [self EXCEPT ![1] = FAdd(@, other[1])]
        s2 == [s1 EXCEPT ![2] = FAdd(@, other[2])]
    IN [s2 EXCEPT ![3] = FAdd(@, other[2])]

add_assign(self, other) ==
    LET s1 == [self EXCEPT ![1] = FAdd(@, other[1])]
        s2 == [s1 EXCEPT ![2] = FAdd(@, other[2])]
    IN [s2 EXCEPT ![3] = FAdd(@, other[3])]

sub(self, other) ==
    Vec3(FSub(self[1], other[1]), FSub(self[2], other[2]), FSub(self[3], other[3]))

sub_assign(self, other) ==
    LET s1 == [self EXCEPT ![1] = FSub(@, other[1])]
        s2 == [s1 EXCEPT ![2] = FSub(@, other[2])]
    IN [s2 EXCEPT ![3] = FSub(@, other[3])]

\* Component product.
mul(self, other) ==
    Vec3(FMul(self[1], other[1]), FMul(self[2], other[2]), FMul(self[3], other[3]))

mul_assign(self, other) ==
    LET s1 == [self EXCEPT ![1] = FMul(@, other[1])]
        s2 == [s1 EXCEPT ![2] = FMul(@, other[2])]
    IN [s2 EXCEPT ![3] = FMul(@, other[3])]

\* Mul<T>: product with a scalar.
mul_scalar(self, other) ==
    Vec3(FMul(self[1], other), FMul(self[2], other), FMul(self[3], other))

mul_assign_scalar(self, other) ==
    LET s1 == [self EXCEPT ![1] = FMul(@, other)]
        s2 == [s1 EXCEPT ![2] = FMul(@, other)]
    IN [s2 EXCEPT ![3] = FMul(@, other)]

div(self, other) ==
    Vec3(FDiv(self[1], other), FDiv(self[2], other), FDiv(self[3], other))

div_assign(self, other) ==
    LET s1 == [self EXCEPT ![1] = FDiv(@, other)]
        s2 == [s1 EXCEPT ![2] = FDiv(@, other)]
    IN [s2 EXCEPT ![3] = FDiv(@, other)]

\* The number of scalar divisions norm performs on self.
norm_divisions(self) == IF mag(self) = Zero THEN 0 ELSE 3

\* norm without the zero check.
norm_unchecked(self) == div(self, mag(self))

norm(self) ==
    LET m == mag(self)
    IN IF m = Zero THEN self ELSE div(self, m)

dot(self, other) ==
    FAdd(FAdd(FMul(self[1], other[1]), FMul(self[2], other[2])),
         FMul(self[3], other[3]))

cross(self, other) ==
    Vec3(FSub(FMul(self[2], other[3]), FMul(self[3], other[2])),
         FSub(FMul(self[3], other[1]), FMul(self[1], other[3])),
         FSub(FMul(self[1], other[2]), FMul(self[2], other[1])))

\* Option<(Self, Self, Self)>
None == <<"None">>
Some(x, y, z) == <<"Some", x, y, z>>

basis(self, other) ==
    LET a == self
        b == other
        c == norm(cross(norm(a), b))
    IN IF mag(c) = Zero THEN None ELSE Some(a, cross(c, a), c)

-----------------------------------------------------------------------------
(* Particle<T>                                                             *)

Particle(p, v, acc, dmp, im) ==
    [position |-> p, velocity |-> v, acceleration |-> acc,
     damping |-> dmp, inverse_mass |-> im]

\* The three statements of integrate, in source order.
integrate_position(self, duration) ==
    [self EXCEPT !.position = add_assign(@, mul_scalar(self.velocity, duration))]

integrate_velocity(self, duration) ==
    [self EXCEPT !.velocity =
         add_assign(@, mul_scalar(self.acceleration, duration))]

integrate_damping(self, duration) ==
    [self EXCEPT !.velocity =
         mul_assign_scalar(@, FPowf(self.damping, duration))]

\* integrate with the damping applied before the acceleration.
integrate_damp_first(self, duration) ==
    integrate_velocity(
        integrate_damping(integrate_position(self, duration), duration),
        duration)

\* integrate with the position advanced by the updated velocity.
integrate_explicit(self, duration) ==
    integrate_position(
        integrate_damping(integrate_velocity(self, duration), duration),
        duration)

\* integrate with the damping applied once per call, whatever the duration.
integrate_naive_damping(self, duration) ==
    LET s2 == integrate_velocity(integrate_position(self, duration), duration)
    IN [s2 EXCEPT !.velocity = mul_assign_scalar(@, s2.damping)]

\* integrate that consumes the acceleration it has applied.
integrate_clear_acceleration(self, duration) ==
    LET s3 == integrate_damping(
                  integrate_velocity(integrate_position(self, duration),
                                     duration),
                  duration)
    IN [s3 EXCEPT !.acceleration = Vec3(Zero, Zero, Zero)]

integrate(self, duration) ==
    integrate_damping(
        integrate_velocity(integrate_position(self, duration), duration),
        duration)

-----------------------------------------------------------------------------
(* State.                                                                  *)
(*   Vector calls: the caller holds a receiver a, a right-hand vector b    *)
(*   and a scalar s, and makes one call; args are the operands as they     *)
(*   were passed, ret the returned value, last the operation called and    *)
(*   divisions the number of scalar divisions the call performed.          *)
(*   Particles: particles[i] is the particle owned by task i, initial[i]   *)
(*   its state at construction and hist[i] the durations of the integrate  *)
(*   calls completed on it so far, in order.  In the concurrent world      *)
(*   pc[i] is the statement of integrate task i executes next ("idle"      *)
(*   between calls) and dur[i] the duration of its call in progress.       *)

VARIABLES a, b, s, args, ret, last, divisions, particles, initial, hist,
          pc, dur

vars == <<a, b, s, args, ret, last, divisions, particles, initial, hist,
          pc, dur>>
vecVars == <<a, b, s, args, ret, last, divisions>>
particleVars == <<particles, initial, hist, pc, dur>>

V(x, y, z) == Vec3(I(x), I(y), I(z))
ZeroVec == V(0, 0, 0)

VecInputs ==
    { V(0, 0, 0), V(1, 0, 0), V(0, 1, 0), V(2, 0, 0), V(0, 2, 0),
      V(1, 1, 1), V(0, 1, 2), V(1, 3, 0), V(1, 2, 3), V(3, 1, 1),
      V(2, 3, 4), V(5, 6, 7), V(3, 3, 2), V(6, 6, 4), V(-3, -3, -2),
      Vec3(Dy(1, 1), Zero, Zero) }

\* Scalars the caller multiplies and divides by; a division by zero is
\* outside the domain of the scalar divide.
ScalarInputs == { I(2), I(3), I(-1), Dy(1, 1) }

Durations == { Zero, Dy(1, 1), I(1), I(2), I(-1) }

FrameTimes == { Dy(1, 1), I(1) }

ParticleInputs ==
    { Particle(ZeroVec, ZeroVec, V(0, -10, 0), One, One),
      Particle(ZeroVec, V(0, 10, 0), ZeroVec, Dy(1, 1), One),
      Particle(V(1, 2, 3), V(5, 6, 7), V(0, -10, 0), One, One),
      Particle(V(1, 2, 3), V(5, 6, 7), ZeroVec, Dy(3, 2), One),
      Particle(ZeroVec, V(0, 10, 0), V(0, -10, 0), One, Zero),
      Particle(ZeroVec, ZeroVec, ZeroVec, One, Zero),
      Particle(ZeroVec, V(1, 0, 0), V(0, -10, 0), Dy(7, 3), Dy(1, 1)),
      Particle(V(1, 1, 1), V(-1, 2, 0), V(1, 0, -1), One, I(2)),
      Particle(V(0, 8, 0), V(3, 0, -3), ZeroVec, Dy(1, 2), One),
      Particle(V(2, 0, 1), V(0, 3, 0), V(0, -10, 0), Dy(1, 1), One) }

\* The particle task i constructs: a spark, different for every task.
WorldParticle(i) ==
    Particle(V(i, 2, 3), V(5, 6, i), V(0, -10, 0), Dy(1, 1), One)

NoVecCall ==
    /\ a = ZeroVec /\ b = ZeroVec /\ s = One
    /\ args = [a |-> ZeroVec, b |-> ZeroVec, s |-> One]
    /\ ret = <<>> /\ last = "init" /\ divisions = 0

NoParticles ==
    /\ particles = <<>> /\ initial = <<>> /\ hist = <<>>
    /\ pc = <<>> /\ dur = <<>>

InitVec ==
    /\ a \in VecInputs /\ b \in VecInputs /\ s \in ScalarInputs
    /\ args = [a |-> a, b |-> b, s |-> s]
    /\ ret = <<>> /\ last = "init" /\ divisions = 0
    /\ NoParticles

InitParticle ==
    /\ particles \in [{1} -> ParticleInputs]
    /\ initial = particles
    /\ hist = [i \in {1} |-> <<>>]
    /\ pc = [i \in {1} |-> "idle"]
    /\ dur = [i \in {1} |-> Zero]
    /\ NoVecCall

InitWorld ==
    /\ particles = [i \in 1..NumParticles |-> WorldParticle(i)]
    /\ initial = particles
    /\ hist = [i \in 1..NumParticles |-> <<>>]
    /\ pc = [i \in 1..NumParticles |-> "idle"]
    /\ dur = [i \in 1..NumParticles |-> Zero]
    /\ NoVecCall

-----------------------------------------------------------------------------
(* Vector calls.  A call of a method returning a value leaves a, b and s   *)
(* alone (they are passed by copy); an in-place operator writes a.         *)

Returns(op, value, divs) ==
    /\ last = "init"
    /\ last' = op
    /\ ret' = value
    /\ divisions' = divs
    /\ UNCHANGED <<a, b, s, args, particleVars>>

Assigns(op, value, divs) ==
    /\ last = "init"
    /\ last' = op
    /\ a' = value
    /\ divisions' = divs
    /\ UNCHANGED <<b, s, args, ret, particleVars>>

Invert == Returns("invert", invert(a), 0)
Mag == Returns("mag", mag(a), 0)
MagSquared == Returns("mag_squared", mag_squared(a), 0)
Norm == Returns("norm", norm(a), norm_divisions(a))
Dot == Returns("dot", dot(a, b), 0)
Cross == Returns("cross", cross(a, b), 0)
Basis == Returns("basis", basis(a, b), norm_divisions(a)
                            + norm_divisions(cross(norm(a), b)))
Add == Returns("add", add(a, b), 0)
AddAssign == Assigns("add_assign", add_assign(a, b), 0)
Sub == Returns("sub", sub(a, b), 0)
SubAssign == Assigns("sub_assign", sub_assign(a, b), 0)
Mul == Returns("mul", mul(a, b), 0)
MulAssign == Assigns("mul_assign", mul_assign(a, b), 0)
MulScalar == Returns("mul_scalar", mul_scalar(a, s), 0)
MulAssignScalar == Assigns("mul_assign_scalar", mul_assign_scalar(a, s), 0)
Div == Returns("div", div(a, s), 3)
DivAssign == Assigns("div_assign", div_assign(a, s), 3)

NextVec ==
    \/ Invert \/ Mag \/ MagSquared \/ Norm \/ Dot \/ Cross \/ Basis
    \/ Add \/ AddAssign \/ Sub \/ SubAssign \/ Mul \/ MulAssign
    \/ MulScalar \/ MulAssignScalar \/ Div \/ DivAssign

SpecVec == InitVec /\ [][NextVec]_vars

-----------------------------------------------------------------------------
(* Particle calls.  Task i owns particles[i] and is its only writer.       *)

\* One call particles[i].integrate(d), as a single step.
Integrate(i, d) ==
    /\ Len(hist[i]) < MaxSteps
    /\ particles' = [particles EXCEPT ![i] = integrate(@, d)]
    /\ hist' = [hist EXCEPT ![i] = Append(@, d)]
    /\ UNCHANGED <<initial, pc, dur, vecVars>>

NextParticle == \E i \in DOMAIN particles, d \in Durations : Integrate(i, d)

SpecParticle == InitParticle /\ [][NextParticle]_vars

(* The concurrent world: the tasks run their integrate calls statement by  *)
(* statement, interleaved in any order.                                    *)

\* A statement that writes every particle of the collection, as if the
\* state were shared.
WriteAll(ps, i, q) == [j \in DOMAIN ps |-> q]

\* A statement of task i writes through its own &mut self only.
WriteOwn(ps, i, q) == [ps EXCEPT ![i] = q]

\* Task i calls integrate(d) and executes its first statement.
StepPosition(i, d) ==
    /\ pc[i] = "idle"
    /\ Len(hist[i]) < MaxCalls
    /\ particles' = WriteOwn(particles, i, integrate_position(particles[i], d))
    /\ dur' = [dur EXCEPT ![i] = d]
    /\ pc' = [pc EXCEPT ![i] = "velocity"]
    /\ UNCHANGED <<initial, hist, vecVars>>

StepVelocity(i) ==
    /\ pc[i] = "velocity"
    /\ particles' = WriteOwn(particles, i,
                             integrate_velocity(particles[i], dur[i]))
    /\ pc' = [pc EXCEPT ![i] = "damping"]
    /\ UNCHANGED <<initial, hist, dur, vecVars>>

\* The last statement; the call returns.
StepDamping(i) ==
    /\ pc[i] = "damping"
    /\ particles' = WriteOwn(particles, i,
                             integrate_damping(particles[i], dur[i]))
    /\ hist' = [hist EXCEPT ![i] = Append(@, dur[i])]
    /\ pc' = [pc EXCEPT ![i] = "idle"]
    /\ UNCHANGED <<initial, dur, vecVars>>

NextWorld ==
    \E i \in DOMAIN particles :
        \/ \E d \in FrameTimes : StepPosition(i, d)
        \/ StepVelocity(i)
        \/ StepDamping(i)

SpecWorld == InitWorld /\ [][NextWorld]_vars

-----------------------------------------------------------------------------
(* Properties of the vector calls (checked under SpecVec).                 *)

ExCross(x, y) ==
    Vec3(ExSub(ExMul(x[2], y[3]), ExMul(x[3], y[2])),
         ExSub(ExMul(x[3], y[1]), ExMul(x[1], y[3])),
         ExSub(ExMul(x[1], y[2]), ExMul(x[2], y[1])))

\* x and y are parallel, or one of them is the zero vector: their exact
\* cross product vanishes.
Degenerate(x, y) == ExCross(x, y) = ZeroVec

ExDot(x, y) ==
    ExAdd(ExAdd(ExMul(x[1], y[1]), ExMul(x[2], y[2])), ExMul(x[3], y[3]))

\* x and y differ by no more than 1/4: equal, with a generous allowance for
\* the rounding of the float operations.
Near(x, y) == ExLe(ExAbs(ExSub(x, y)), Dy(1, 2))

\* C2: whenever basis returns a present triple (X, Y, Z) for a non-parallel,
\* non-zero pair, also when the receiver is not of unit length, X, Y and Z
\* have magnitude 1, are pairwise orthogonal, and cross(X, Y) = Z.  The
\* equalities are read up to rounding (Near), so that only a frame that is
\* really not orthonormal violates them.
BasisIsOrthonormal ==
    (last = "basis" /\ ret # None /\ ~Degenerate(args.a, args.b)) =>
        LET X == ret[2]
            Y == ret[3]
            Z == ret[4]
            XY == ExCross(X, Y)
        IN /\ Near(ExDot(X, X), One)
           /\ Near(ExDot(Y, Y), One)
           /\ Near(ExDot(Z, Z), One)
           /\ Near(ExDot(X, Y), Zero)
           /\ Near(ExDot(Y, Z), Zero)
           /\ Near(ExDot(X, Z), Zero)
           /\ \A k \in 1..3 : Near(XY[k], Z[k])

\* C3: basis returns None whenever the two vectors are parallel or one of
\* them is zero, and a present triple whose first element is the receiver
\* itself for every other pair.
BasisAbsentIffDegenerate ==
    last = "basis" =>
        IF Degenerate(args.a, args.b)
        THEN ret = None
        ELSE ret # None /\ ret[1] = "Some" /\ ret[2] = args.a

\* C8: the in-place form of add, subtract, component multiply, scalar
\* multiply and scalar divide leaves the receiver equal to what the
\* immutable form returns for the same operands, and no form changes the
\* right-hand operand; (1,1,1) + (0,1,2) = (1,2,3) in both forms.
InPlaceAgreesWithImmutable ==
    /\ last = "add_assign" => a = add(args.a, args.b)
    /\ last = "sub_assign" => a = sub(args.a, args.b)
    /\ last = "mul_assign" => a = mul(args.a, args.b)
    /\ last = "mul_assign_scalar" => a = mul_scalar(args.a, args.s)
    /\ last = "div_assign" => a = div(args.a, args.s)
    /\ b = args.b /\ s = args.s
    /\ last \in {"add", "sub", "mul", "mul_scalar", "div"} => a = args.a
    /\ (args.a = V(1, 1, 1) /\ args.b = V(0, 1, 2)) =>
          /\ last = "add" => ret = V(1, 2, 3)
          /\ last = "add_assign" => a = V(1, 2, 3)

InPlaceWitness ==
    /\ last = "add_assign"
    /\ args.a = V(1, 1, 1) /\ args.b = V(0, 1, 2)
    /\ a = V(1, 2, 3) /\ b = V(0, 1, 2)

\* C9: norm of a vector whose magnitude is exactly zero returns that vector
\* unchanged and performs no division; norm of any other vector returns the
\* vector divided by its magnitude.
NormZeroPolicy ==
    last = "norm" =>
        IF mag(args.a) = Zero
        THEN ret = args.a /\ divisions = 0
        ELSE ret = div(args.a, mag(args.a))

NormWitness ==
    /\ last = "norm" /\ args.a = ZeroVec /\ ret = ZeroVec /\ divisions = 0

-----------------------------------------------------------------------------
(* Properties of integrate (checked under SpecParticle and SpecWorld).     *)

RECURSIVE Replay(_, _)
\* The particle p after the integrate calls with the durations h, in order.
Replay(p, h) ==
    IF h = <<>> THEN p ELSE Replay(integrate(p, Head(h)), Tail(h))

Last(h) == h[Len(h)]

GravityAtRest == Particle(ZeroVec, ZeroVec, V(0, -10, 0), One, One)

\* C1: one call integrate(d) on a particle (p, v, a, damping) gives
\* position' = p + v*d, with the velocity of before the call, and
\* velocity' = (v + a*d) * damping^d; from rest at the origin with
\* a = (0,-10,0), damping 1 and d = 1 the position stays (0,0,0) and the
\* velocity becomes (0,-10,0).
IntegrateOrder ==
    [][\A i \in DOMAIN particles :
         hist'[i] # hist[i] =>
            LET p == particles[i]
                d == Last(hist'[i])
            IN /\ particles'[i].position
                    = add(p.position, mul_scalar(p.velocity, d))
               /\ particles'[i].velocity
                    = mul_scalar(add(p.velocity, mul_scalar(p.acceleration, d)),
                                 FPowf(p.damping, d))
               /\ (p = GravityAtRest /\ d = One) =>
                     /\ particles'[i].position = ZeroVec
                     /\ particles'[i].velocity = V(0, -10, 0)]_vars

IntegrateOrderWitness ==
    /\ initial[1] = GravityAtRest /\ hist[1] = <<One>>
    /\ particles[1].position = ZeroVec
    /\ particles[1].velocity = V(0, -10, 0)

Positive(x) == x[1] > 0
NonNegative(x) == x[1] >= 0

\* C4: a particle whose inverse mass is zero never changes position, for
\* any sequence of integrate calls with positive durations.
InfiniteMassIsImmovable ==
    \A i \in DOMAIN particles :
        (/\ initial[i].inverse_mass = Zero
         /\ \A k \in 1..Len(hist[i]) : Positive(hist[i][k]))
        => particles[i].position = initial[i].position

\* C5: integrate changes only position and velocity: acceleration, damping
\* and inverse mass keep the values they had before the calls.
IntegrateFrame ==
    \A i \in DOMAIN particles :
        /\ particles[i].acceleration = initial[i].acceleration
        /\ particles[i].damping = initial[i].damping
        /\ particles[i].inverse_mass = initial[i].inverse_mass

IntegrateFrameWitness ==
    /\ Len(hist[1]) >= 2
    /\ particles[1].acceleration = V(0, -10, 0)
    /\ particles[1].velocity # initial[1].velocity
    /\ particles[1].position # initial[1].position

\* n * x for a natural number n, exactly.
ExTimes(n, x) == ExMul(Canon(n, 0), x)

\* x is a value of T: its significand fits in Precision bits.
Representable(x) == Abs(x[1]) < 2^Precision

\* All the n calls recorded in h have the duration d.
AllEqual(h, d) == \A k \in 1..Len(h) : h[k] = d

\* The closed forms after n steps of duration d, per component, exactly:
\* v0 + n*d*a  and  p0 + n*d*v0 + (n*(n-1)/2)*d*d*a.
ClosedVelocity(v0, acc, d, n) == ExAdd(v0, ExTimes(n, ExMul(d, acc)))
ClosedPosition(p0, v0, acc, d, n) ==
    ExAdd(ExAdd(p0, ExTimes(n, ExMul(d, v0))),
          ExTimes((n * (n - 1)) \div 2, ExMul(ExMul(d, d), acc)))

MatchesClosedForm(i) ==
    LET n == Len(hist[i])
        d == IF n = 0 THEN Zero ELSE hist[i][1]
        q == initial[i]
    IN \A c \in 1..3 :
          /\ particles[i].velocity[c]
                = ClosedVelocity(q.velocity[c], q.acceleration[c], d, n)
          /\ particles[i].position[c]
                = ClosedPosition(q.position[c], q.velocity[c],
                                 q.acceleration[c], d, n)

ConstantSteps(i) ==
    /\ initial[i].damping = One
    /\ AllEqual(hist[i], IF hist[i] = <<>> THEN Zero ELSE hist[i][1])

\* C6 (as stated): with damping 1, after n calls integrate(d) of the same
\* duration d from (p0, v0), velocity = v0 + n*d*a and
\* position = p0 + n*d*v0 + (n*(n-1)/2)*d*d*a, for every n >= 0.
ClosedFormExact ==
    \A i \in DOMAIN particles : ConstantSteps(i) => MatchesClosedForm(i)

\* Every quantity the n steps compute has an exactly representable value:
\* d*a, and for each step k the velocity v0 + k*d*a, the displacement
\* d*(v0 + (k-1)*d*a) and the position of the closed form.
StepsAreExact(i) ==
    LET n == Len(hist[i])
        d == IF n = 0 THEN Zero ELSE hist[i][1]
        q == initial[i]
    IN \A c \in 1..3 :
          /\ Representable(ExMul(d, q.acceleration[c]))
          /\ \A k \in 1..n :
                /\ Representable(ClosedVelocity(q.velocity[c],
                                                q.acceleration[c], d, k))
                /\ Representable(ExMul(d, ClosedVelocity(q.velocity[c],
                                          q.acceleration[c], d, k - 1)))
                /\ Representable(ClosedPosition(q.position[c], q.velocity[c],
                                                q.acceleration[c], d, k))

\* C6 (amended): the closed forms hold exactly whenever every quantity the
\* steps compute is exactly representable in T.
ClosedFormWhenExact ==
    \A i \in DOMAIN particles :
        (ConstantSteps(i) /\ StepsAreExact(i)) => MatchesClosedForm(i)

ClosedFormWitness ==
    /\ initial[1] = GravityAtRest
    /\ hist[1] = <<Dy(1, 1), Dy(1, 1), Dy(1, 1)>>
    /\ StepsAreExact(1)
    /\ particles[1].velocity = V(0, -15, 0)
    /\ particles[1].position = Vec3(Zero, Dy(-15, 1), Zero)

Spark == Particle(ZeroVec, V(0, 10, 0), ZeroVec, Dy(1, 1), One)

\* The velocity after integrate(d1) then integrate(d2) is the velocity after
\* the single call integrate(d1 + d2), which is v * damping^(d1 + d2).
TwoStepsAsOne(i) ==
    LET q == initial[i]
        d == FAdd(hist[i][1], hist[i][2])
    IN /\ particles[i].velocity = integrate(q, d).velocity
       /\ particles[i].velocity = mul_scalar(q.velocity, FPowf(q.damping, d))

\* C7 (as stated): with zero acceleration the velocity after integrate(d1)
\* followed by integrate(d2), for step sizes d1, d2 >= 0, equals the velocity after one integrate(d1+d2),
\* namely v * damping^(d1+d2); velocity (0,10,0), damping 0.5 and total
\* duration 1 give (0,5,0).
DampingStepIndependent ==
    \A i \in DOMAIN particles :
        (/\ initial[i].acceleration = ZeroVec
         /\ Len(hist[i]) = 2
         /\ NonNegative(hist[i][1]) /\ NonNegative(hist[i][2])) =>
            /\ TwoStepsAsOne(i)
            /\ (initial[i] = Spark /\ FAdd(hist[i][1], hist[i][2]) = One)
                  => particles[i].velocity = V(0, 5, 0)

\* damping^d is exactly representable: the rounded power, squared, is
\* exactly damping^(2d).
PowIsExact(x, y) ==
    LET w == FPowf(x, y)
        k == y[1] * 2^(y[2] + 1)
    IN IF k >= 0
       THEN ExMul(w, w) = Canon(x[1]^k, x[2] * k)
       ELSE ExMul(ExMul(w, w), Canon(x[1]^(-k), x[2] * (-k))) = One

\* The two damping factors, their product, and the velocities they give are
\* all exactly representable.
DampingIsExact(i) ==
    LET q == initial[i]
        d1 == hist[i][1]
        d2 == hist[i][2]
        w1 == FPowf(q.damping, d1)
        w2 == FPowf(q.damping, d2)
    IN /\ PowIsExact(q.damping, d1)
       /\ PowIsExact(q.damping, d2)
       /\ Representable(ExMul(w1, w2))
       /\ \A c \in 1..3 :
             /\ Representable(ExMul(q.velocity[c], w1))
             /\ Representable(ExMul(ExMul(q.velocity[c], w1), w2))

\* C7 (amended): the two velocities are equal whenever damping^d1,
\* damping^d2, their product and the damped velocities are exactly
\* representable in T.
DampingStepIndependentWhenExact ==
    \A i \in DOMAIN particles :
        (/\ initial[i].acceleration = ZeroVec
         /\ Len(hist[i]) = 2
         /\ NonNegative(hist[i][1]) /\ NonNegative(hist[i][2])
         /\ DampingIsExact(i)) =>
            /\ TwoStepsAsOne(i)
            /\ (initial[i] = Spark /\ FAdd(hist[i][1], hist[i][2]) = One)
                  => particles[i].velocity = V(0, 5, 0)

DampingWitness ==
    /\ initial[1] = Spark
    /\ hist[1] = <<One, One>>
    /\ DampingIsExact(1)
    /\ particles[1].velocity = Vec3(Zero, Dy(5, 1), Zero)

\* The particle p with the statements of the call in progress applied:
\* those before the statement at, for the duration d.
InFlight(p, at, d) ==
    IF at = "velocity" THEN integrate_position(p, d)
    ELSE IF at = "damping"
    THEN integrate_velocity(integrate_position(p, d), d)
    ELSE p

\* C10: for any interleaving of integrate calls made by different tasks on
\* distinct particles, every particle's state is the one obtained by
\* applying only its own calls, in order, to its initial state.
OwnCallsOnly ==
    \A i \in DOMAIN particles :
        particles[i] = InFlight(Replay(initial[i], hist[i]), pc[i], dur[i])

OwnCallsWitness ==
    /\ Len(hist[1]) >= 2 /\ Len(hist[2]) >= 1
    /\ hist[1] # hist[2]
    /\ pc[1] = "idle" /\ pc[2] = "damping"
    /\ particles[1] = Replay(initial[1], hist[1])
    /\ particles[1] # initial[1] /\ particles[2] # initial[2]

====
